---- MODULE Spec2Model ----
(***************************************************************************)
(* Model of runpod/serverless/utils/rp_validator.py (validate) and of      *)
(* runpod/serverless/utils/rp_download.py (download_files_from_urls).      *)
(*                                                                         *)
(* Python values are records [t |-> <runtime type>, v |-> <magnitude>].    *)
(* A schema rule is a record carrying its Python kind (py), the keys the   *)
(* dict holds (has) and their values; an exception that leaves validate is *)
(* an outcome of its own, distinct from both returned variants.            *)
(***************************************************************************)
EXTENDS Integers, Sequences, FiniteSets, TLC

\* ------------------------------------------------------------------ bounds
NumKeys == 2
NumUrls == 3
\* max_workers of the pool, kept below NumUrls so that tasks queue
MaxWorkers == 2

Keys == 1..NumKeys

\* ------------------------------------------------------- Python values
None == [t |-> "NoneType", v |-> 0]
IntVal(n) == [t |-> "int", v |-> n]
FloatVal(n) == [t |-> "float", v |-> n]
TrueVal == [t |-> "bool", v |-> 1]

Values == {None, IntVal(1), FloatVal(1), TrueVal}

\* type objects a rule written in Python can name
Types == {"int", "float"}

\* caller-supplied constraint lambdas
Predicates == {"not_none", "is_int"}

\* rules['constraints'](value)
ApplyConstraint(p, val) ==
    CASE p = "not_none" -> val.t # "NoneType"
      [] p = "is_int" -> val.t \in {"int", "bool"}
      [] OTHER -> TRUE

\* isinstance written as if an int were an instance of float
IsInstanceNumeric(val, ty) ==
    \/ val.t = ty
    \/ val.t = "bool" /\ ty = "int"
    \/ val.t = "int" /\ ty = "float"

\* isinstance(value, type): bool is a subclass of int
IsInstance(val, ty) ==
    \/ val.t = ty
    \/ val.t = "bool" /\ ty = "int"

\* float(value) for an int or a float
ToFloat(val) == FloatVal(val.v)

\* ------------------------------------------------------- schema rules
RuleKeys == {"type", "required", "default", "constraints"}

DictRule(has, ty, req, df, con) ==
    [py |-> "dict", has |-> has,
     type |-> IF "type" \in has THEN ty ELSE "-",
     required |-> IF "required" \in has THEN req ELSE FALSE,
     default |-> IF "default" \in has THEN df ELSE None,
     constraints |-> IF "constraints" \in has THEN con ELSE "-",
     text |-> "-"]

\* a rule given as a str
StrRule(s) ==
    [py |-> "str", has |-> {}, type |-> "-", required |-> FALSE,
     default |-> None, constraints |-> "-", text |-> s]

\* a rule that is neither a dict nor a str (a list, an int)
OtherRule(p) ==
    [py |-> p, has |-> {}, type |-> "-", required |-> FALSE,
     default |-> None, constraints |-> "-", text |-> "-"]

JSON_RULE == "{\"type\": \"int\", \"required\": true}"
JSON_LIST == "[]"
NOT_JSON == "not json"

\* json.loads(rules): the value parsed, or the exception raised
JsonLoads(rule) ==
    CASE rule.py # "str" -> [exc |-> "TypeError"]
      [] rule.text = JSON_RULE ->
            [exc |-> "none",
             val |-> DictRule({"type", "required"}, "str:int", TRUE, None, "-")]
      [] rule.text = JSON_LIST -> [exc |-> "none", val |-> OtherRule("list")]
      [] OTHER -> [exc |-> "JSONDecodeError"]

\* `name in rules`: dict membership, substring of a str, element of a list
Contains(rule, name) ==
    CASE rule.py = "dict" -> name \in rule.has
      [] rule.py = "str" -> rule.text = JSON_RULE /\ name \in {"type", "required"}
      [] OTHER -> FALSE

\* the exception `name in rules` raises: an int is not iterable
ContainsExc(rule) == IF rule.py = "int" THEN "TypeError" ELSE "none"

\* the exception rules[name] raises, "none" when it yields a value
GetItemExc(rule, name) ==
    CASE rule.py # "dict" -> "TypeError"
      [] name \notin rule.has -> "KeyError"
      [] OTHER -> "none"

\* ------------------------------------------------------- error messages
Message(template, key) == [msg |-> template, key |-> key, exp |-> "-", act |-> "-"]

UNEXPECTED_INPUT_ERROR(key) == Message("Unexpected input. {} is not a valid input option.", key)
MISSING_REQUIRED_ERROR(key) == Message("{} is a required input.", key)
MISSING_DEFAULT_ERROR(key) == Message("Schema error, missing default value for {}.", key)
MISSING_TYPE_ERROR(key) == Message("Schema error, missing type for {}.", key)
CONSTRAINTS_ERROR(key) == Message("{} does not meet the constraints.", key)
SCHEMA_ERROR(key) == Message("Schema error, {} is not a dictionary.", key)

\* f"{key} should be {rules['type']} type, not {type(raw_input[key])}."
INVALID_TYPE_ERROR(key, ty, actual) ==
    [msg |-> "{} should be {} type, not {}.", key |-> key, exp |-> ty, act |-> actual]

\* ------------------------------------------------------- validate
\* A frame holds the locals of one call: the caller's schema object (mutated
\* in place), the caller's input object, the working copy, the error list and
\* the exception in flight ("none" while the call is running normally).
_add_error(f, message) == [f EXCEPT !.error_list = Append(@, message)]

Raise(f, e) == [f EXCEPT !.exc = e]

SetItem(d, key, val) == [x \in DOMAIN d \cup {key} |-> IF x = key THEN val ELSE d[x]]

\* lines 38-39
Enter(raw_input, schema) ==
    [schema |-> schema, raw_input |-> raw_input, validated_input |-> raw_input,
     error_list |-> <<>>, exc |-> "none"]

\* lines 42-44, one iteration
UnexpectedKey(f, key) ==
    IF key \notin DOMAIN f.schema
    THEN _add_error(f, UNEXPECTED_INPUT_ERROR(key))
    ELSE f

\* lines 47-52, one iteration
NormalizeKey(f, key) ==
    LET rules == f.schema[key]
        parsed == JsonLoads(rules)
    IN  IF rules.py = "dict" THEN f
        ELSE IF parsed.exc = "none"
             THEN [f EXCEPT !.schema = SetItem(@, key, parsed.val)]
        ELSE IF parsed.exc = "JSONDecodeError"
             THEN _add_error(f, SCHEMA_ERROR(key))
        ELSE Raise(f, parsed.exc)

\* lines 59-68, the if/elif chain
RequiredChain(f, key, rules) ==
    LET absent == key \notin DOMAIN f.raw_input
        nodefault == ~Contains(rules, "default")
    IN  IF ~Contains(rules, "required")
        THEN _add_error(f, MISSING_REQUIRED_ERROR(key))
        ELSE IF GetItemExc(rules, "required") # "none"
             THEN Raise(f, GetItemExc(rules, "required"))
        ELSE IF rules.required /\ absent
             THEN _add_error(f, MISSING_REQUIRED_ERROR(key))
        ELSE IF rules.required /\ absent /\ nodefault
             THEN _add_error(f, MISSING_DEFAULT_ERROR(key))
        ELSE IF ~rules.required /\ absent /\ nodefault
             THEN _add_error(f, MISSING_DEFAULT_ERROR(key))
        ELSE IF ~rules.required /\ absent
             THEN [f EXCEPT !.validated_input = SetItem(@, key, rules.default)]
        ELSE f

\* lines 55-68, one iteration
ResolveKey(f, key) ==
    LET rules == f.schema[key]
        f1 == IF ~Contains(rules, "type")
              THEN _add_error(f, MISSING_TYPE_ERROR(key))
              ELSE f
    IN  IF ContainsExc(rules) # "none"
        THEN Raise(f, ContainsExc(rules))
        ELSE RequiredChain(f1, key, rules)

\* line 72-73: rules['type'] is float and type(raw_input[key]) in [int, float]
Coerce(f, key, rules) ==
    IF rules.type # "float" THEN f
    ELSE IF key \notin DOMAIN f.raw_input THEN Raise(f, "KeyError")
    ELSE IF f.raw_input[key].t \in {"int", "float"}
         THEN [f EXCEPT !.validated_input = SetItem(@, key, ToFloat(f.raw_input[key]))]
    ELSE f

\* line 76 without the `is not None` test
TypeMismatchNullChecked(val, ty) == ~IsInstance(val, ty)

\* line 76: not isinstance(value, type) and value is not None
TypeMismatch(val, ty) == ~IsInstance(val, ty) /\ val # None

\* lines 76-78; isinstance raises when its second argument is not a type
CheckType(f, key, rules) ==
    IF key \notin DOMAIN f.raw_input THEN Raise(f, "KeyError")
    ELSE IF rules.type \notin Types THEN Raise(f, "TypeError")
    ELSE IF TypeMismatch(f.raw_input[key], rules.type)
         THEN _add_error(f, INVALID_TYPE_ERROR(key, rules.type, f.raw_input[key].t))
    ELSE f

\* lines 81-83
CheckConstraints(f, key, rules) ==
    IF Contains(rules, "constraints") /\ ~ApplyConstraint(rules.constraints, f.raw_input[key])
    THEN _add_error(f, CONSTRAINTS_ERROR(key))
    ELSE f

\* lines 70-83, one iteration
CheckKey(f, key) ==
    LET rules == f.schema[key]
        f1 == Coerce(f, key, rules)
        f2 == CheckType(f1, key, rules)
    IN  IF GetItemExc(rules, "type") # "none" THEN Raise(f, GetItemExc(rules, "type"))
        ELSE IF f1.exc # "none" THEN f1
        ELSE IF f2.exc # "none" THEN f2
        ELSE CheckConstraints(f2, key, rules)

\* the four for loops; a dict is walked in insertion order, here ascending
\* keys, and an exception in flight ends the walk
RECURSIVE UnexpectedLoop(_, _)
UnexpectedLoop(f, key) ==
    IF key > NumKeys THEN f
    ELSE UnexpectedLoop(IF key \in DOMAIN f.raw_input THEN UnexpectedKey(f, key) ELSE f,
                        key + 1)

RECURSIVE NormalizeLoop(_, _)
NormalizeLoop(f, key) ==
    IF key > NumKeys \/ f.exc # "none" THEN f
    ELSE NormalizeLoop(IF key \in DOMAIN f.schema THEN NormalizeKey(f, key) ELSE f,
                       key + 1)

RECURSIVE ResolveLoop(_, _)
ResolveLoop(f, key) ==
    IF key > NumKeys \/ f.exc # "none" THEN f
    ELSE ResolveLoop(IF key \in DOMAIN f.schema THEN ResolveKey(f, key) ELSE f,
                     key + 1)

RECURSIVE CheckLoop(_, _)
CheckLoop(f, key) ==
    IF key > NumKeys \/ f.exc # "none" THEN f
    ELSE CheckLoop(IF key \in DOMAIN f.schema THEN CheckKey(f, key) ELSE f,
                   key + 1)

\* lines 38-83: the frame when the call ends
validate(raw_input, schema) ==
    CheckLoop(ResolveLoop(NormalizeLoop(UnexpectedLoop(Enter(raw_input, schema), 1), 1), 1), 1)

\* lines 85-89: what the caller gets, or the exception that escaped
Outcome(f) ==
    IF f.exc # "none"
    THEN [kind |-> "raised", validated_input |-> <<>>, errors |-> <<>>, exc |-> f.exc]
    ELSE IF f.error_list # <<>>
    THEN [kind |-> "errors", validated_input |-> <<>>, errors |-> f.error_list, exc |-> "none"]
    ELSE [kind |-> "validated_input", validated_input |-> f.validated_input,
          errors |-> <<>>, exc |-> "none"]

NoResult == [kind |-> "none", validated_input |-> <<>>, errors |-> <<>>, exc |-> "none"]

\* ------------------------------------------------------- inputs
\* The rules a schema is drawn from: every shape of rule the branches of
\* validate tell apart.
Rules ==
    { DictRule({"type", "required"}, "int", TRUE, None, "-"),
      DictRule({"type", "required"}, "float", TRUE, None, "-"),
      DictRule({"type", "required", "default"}, "int", FALSE, IntVal(2), "-"),
      DictRule({"type", "required"}, "int", FALSE, None, "-"),
      DictRule({"type", "required", "default"}, "int", TRUE, IntVal(2), "-"),
      DictRule({"required"}, "-", TRUE, None, "-"),
      DictRule({"type"}, "int", FALSE, None, "-"),
      DictRule({"type", "required", "constraints"}, "int", TRUE, None, "not_none"),
      DictRule({"type", "required", "constraints"}, "float", TRUE, None, "is_int"),
      DictRule({"type", "required", "default"}, "float", FALSE, IntVal(2), "-"),
      StrRule(JSON_RULE), StrRule(JSON_LIST), StrRule(NOT_JSON), OtherRule("int") }

Schemas == UNION {[S -> Rules] : S \in SUBSET Keys}
Inputs == UNION {[S -> Values] : S \in SUBSET Keys}

\* ------------------------------------------------------- state
VARIABLES pc, schema, raw_input, schema0, input0, result, result2

VARIABLES dpc, urls, status, started, n, i, c, downloaded_files, files

vvars == <<pc, schema, raw_input, schema0, input0, result, result2>>
dvars == <<dpc, urls, status, started, n, i, c, downloaded_files, files>>
vars == <<vvars, dvars>>

\* ------------------------------------------------------- validate, called
ValidateIdle ==
    /\ pc = "idle"
    /\ schema = <<>>
    /\ raw_input = <<>>
    /\ schema0 = <<>>
    /\ input0 = <<>>
    /\ result = NoResult
    /\ result2 = NoResult

DownloadIdle ==
    /\ dpc = "idle"
    /\ urls = 0
    /\ status = <<>>
    /\ started = {}
    /\ n = 0
    /\ i = 0
    /\ c = 0
    /\ downloaded_files = <<>>
    /\ files = {}

InitV ==
    /\ pc = "ready"
    /\ schema \in Schemas
    /\ raw_input \in Inputs
    /\ schema0 = schema
    /\ input0 = raw_input
    /\ result = NoResult
    /\ result2 = NoResult
    /\ DownloadIdle

\* the caller runs validate(raw_input, schema)
Validate ==
    /\ pc = "ready"
    /\ LET f == validate(raw_input, schema)
       IN  /\ schema' = f.schema
           /\ raw_input' = f.raw_input
           /\ result' = Outcome(f)
           /\ pc' = IF f.exc = "none" THEN "returned" ELSE "raised"
    /\ UNCHANGED <<schema0, input0, result2, dvars>>

\* the caller validates the validated_input it got against the same schema
Revalidate ==
    /\ pc = "returned"
    /\ result.kind = "validated_input"
    /\ LET f == validate(result.validated_input, schema)
       IN  /\ schema' = f.schema
           /\ result2' = Outcome(f)
           /\ pc' = "revalidated"
    /\ UNCHANGED <<raw_input, schema0, input0, result, dvars>>

NextV == Validate \/ Revalidate

Spec == InitV /\ [][NextV]_vars

\* ------------------------------------------------------- download_files_from_urls
\* One task per URL on a ThreadPoolExecutor. A task is "pending" while its
\* work item waits in the queue, "running" inside download_file, then "ok"
\* or "failed"; a pending future that is cancelled never runs.
Tasks == 1..urls

Running == {j \in Tasks : status[j] = "running"}

\* Future.cancel(): only a future that has not started can be cancelled
FutureCancel(st) == IF st = "pending" THEN "cancelled" ELSE st

\* leaving the `with ThreadPoolExecutor()` block joins the workers: every
\* work item has been taken from the queue and every started task has ended
ExecutorExitNoWait == TRUE

ExecutorExitReady == \A j \in Tasks : status[j] \notin {"pending", "running"}

InitD ==
    /\ ValidateIdle
    /\ dpc = "submit"
    /\ urls \in 1..NumUrls
    /\ status = [j \in 1..urls |-> "none"]
    /\ started = {}
    /\ n = 1
    /\ i = 0
    /\ c = 0
    /\ downloaded_files = <<>>
    /\ files = {}

\* executor.map submits every URL before it returns the result iterator
Submit ==
    /\ dpc = "submit"
    /\ n <= urls
    /\ status' = [status EXCEPT ![n] = "pending"]
    /\ n' = n + 1
    /\ UNCHANGED <<dpc, urls, started, i, c, downloaded_files, files, vvars>>

StartIterating ==
    /\ dpc = "submit"
    /\ n > urls
    /\ dpc' = "iterate"
    /\ i' = 1
    /\ UNCHANGED <<urls, status, started, n, c, downloaded_files, files, vvars>>

\* a worker takes the oldest work item of the queue and enters download_file
StartTask(j) ==
    /\ status[j] = "pending"
    /\ \A k \in 1..(j - 1) : status[k] # "pending"
    /\ Cardinality(Running) < MaxWorkers
    /\ status' = [status EXCEPT ![j] = "running"]
    /\ started' = started \cup {j}
    /\ UNCHANGED <<dpc, urls, n, i, c, downloaded_files, files, vvars>>

\* lines 25-40: the response is good and the file is written
FinishOk(j) ==
    /\ status[j] = "running"
    /\ status' = [status EXCEPT ![j] = "ok"]
    /\ files' = files \cup {j}
    /\ UNCHANGED <<dpc, urls, started, n, i, c, downloaded_files, vvars>>

\* lines 26-27: the request fails or raise_for_status raises
FinishFail(j) ==
    /\ status[j] = "running"
    /\ status' = [status EXCEPT ![j] = "failed"]
    /\ UNCHANGED <<dpc, urls, started, n, i, c, downloaded_files, files, vvars>>

\* list(...) takes the next result, in the order of the URLs
TakeResult ==
    /\ dpc = "iterate"
    /\ i <= urls
    /\ status[i] = "ok"
    /\ downloaded_files' = Append(downloaded_files, i)
    /\ i' = i + 1
    /\ UNCHANGED <<dpc, urls, status, started, n, c, files, vvars>>

\* the next result is an exception: it leaves the iterator, whose finally
\* clause cancels the futures not yet taken, the last URL's first
TakeFailure ==
    /\ dpc = "iterate"
    /\ i <= urls
    /\ status[i] = "failed"
    /\ dpc' = "cancel"
    /\ c' = urls
    /\ UNCHANGED <<urls, status, started, n, i, downloaded_files, files, vvars>>

CancelNext ==
    /\ dpc = "cancel"
    /\ c > i
    /\ status' = [status EXCEPT ![c] = FutureCancel(status[c])]
    /\ c' = c - 1
    /\ UNCHANGED <<dpc, urls, started, n, i, downloaded_files, files, vvars>>

\* the with block is left with the exception in flight
ExitRaising ==
    /\ dpc = "cancel"
    /\ c <= i
    /\ ExecutorExitReady
    /\ dpc' = "raised"
    /\ UNCHANGED <<urls, status, started, n, i, c, downloaded_files, files, vvars>>

\* every result was taken: the with block is left and the list returned
ExitReturning ==
    /\ dpc = "iterate"
    /\ i > urls
    /\ ExecutorExitReady
    /\ dpc' = "returned"
    /\ UNCHANGED <<urls, status, started, n, i, c, downloaded_files, files, vvars>>

NextD ==
    \/ Submit
    \/ StartIterating
    \/ \E j \in Tasks : StartTask(j)
    \/ \E j \in Tasks : FinishOk(j)
    \/ \E j \in Tasks : FinishFail(j)
    \/ TakeResult
    \/ TakeFailure
    \/ CancelNext
    \/ ExitRaising
    \/ ExitReturning

SpecD == InitD /\ [][NextD]_vars

\* ======================================================= properties
Called == pc \in {"returned", "raised", "revalidated"}

Returned == pc \in {"returned", "revalidated"}

\* the messages of the errors variant
Errs == {result.errors[x] : x \in DOMAIN result.errors}

IsDict(key) == schema0[key].py = "dict"

\* the rule of key is a dict that names a type object and has `required`
WellFormed(key) ==
    /\ IsDict(key)
    /\ {"type", "required"} \subseteq schema0[key].has
    /\ schema0[key].type \in Types

\* key is supplied with a value of the declared type that meets the constraint
Supplied(key) ==
    /\ key \in DOMAIN input0
    /\ IsInstance(input0[key], schema0[key].type)
    /\ "constraints" \in schema0[key].has =>
          ApplyConstraint(schema0[key].constraints, input0[key])

\* key is optional, declares its default and is left out of the input
LeftToDefault(key) ==
    /\ key \notin DOMAIN input0
    /\ ~schema0[key].required
    /\ "default" \in schema0[key].has

\* a call with nothing to report: no unexpected key, well-formed rules, every
\* field supplied correctly or optional with a default
CleanCall ==
    /\ DOMAIN input0 \subseteq DOMAIN schema0
    /\ \A key \in DOMAIN schema0 :
          WellFormed(key) /\ (Supplied(key) \/ LeftToDefault(key))

\* C1: a schema whose rules all have `type` and `required`, and an input with
\* no key outside the schema that supplies every required field with a value
\* of the declared type (read in the claim's favour: constraints are met and
\* optional fields declare a default), gives validated_input, whose key set is
\* the schema's key set, optional fields the input left out included.
C1_CleanCallReturnsSchemaKeys ==
    (Called /\ CleanCall) =>
        /\ result.kind = "validated_input"
        /\ DOMAIN result.validated_input = DOMAIN schema0

\* C2: a field with required == false and a default that the input leaves out,
\* in a call with no other violation, is mapped to the default in the
\* validated_input returned.
C2_DefaultFilled ==
    (Called /\ CleanCall) =>
        \A key \in DOMAIN schema0 \ DOMAIN input0 :
            /\ result.kind = "validated_input"
            /\ result.validated_input[key] = schema0[key].default

\* C3: a field declared required == true with no default that the input does
\* not contain makes validate return errors holding both the missing-required
\* and the missing-default message for the field.
C3_MissingRequiredReportsBoth ==
    Called =>
        \A key \in DOMAIN schema0 \ DOMAIN input0 :
            (/\ IsDict(key)
             /\ "required" \in schema0[key].has
             /\ schema0[key].required
             /\ "default" \notin schema0[key].has)
            => /\ result.kind = "errors"
               /\ MISSING_REQUIRED_ERROR(key) \in Errs
               /\ MISSING_DEFAULT_ERROR(key) \in Errs

\* C4: validate always ends by returning errors or validated_input, never by
\* an exception that escapes.
C4_NoExceptionEscapes == pc # "raised"

\* C5: an input key absent from the schema makes the result the errors variant
\* holding the unexpected-input message for the key, whatever else is wrong.
C5_UnexpectedKeyReported ==
    Called =>
        \A key \in DOMAIN input0 \ DOMAIN schema0 :
            /\ result.kind = "errors"
            /\ UNEXPECTED_INPUT_ERROR(key) \in Errs

NullKeys == {key \in DOMAIN input0 \cap DOMAIN schema0 : input0[key] = None}

NoInvalidType(key) == \A e \in Errs : ~(e.msg = INVALID_TYPE_ERROR(key, "-", "-").msg /\ e.key = key)

\* the rule of key declares a predicate that rejects None
RejectsNull(key) ==
    /\ "constraints" \in schema0[key].has
    /\ ~ApplyConstraint(schema0[key].constraints, None)

C7_ArgumentsUnchanged ==
    Called => (schema = schema0 /\ raw_input = input0)

\* C8: validating the validated_input of a successful call against the same
\* schema returns validated_input again, with the same mapping.
C8_RevalidationIdempotent ==
    pc = "revalidated" => result2 = result

C8_Witness ==
    /\ pc = "revalidated"
    /\ \E key \in DOMAIN result.validated_input :
          /\ schema0[key].type = "float"
          /\ result2.validated_input[key].t = "float"
    /\ \E key \in DOMAIN result.validated_input : "constraints" \in schema0[key].has

\* key is supplied with a value of the declared type, an int counting as a
\* value for a Float field
SuppliedNumeric(key) ==
    /\ key \in DOMAIN input0
    /\ \/ IsInstance(input0[key], schema0[key].type)
       \/ schema0[key].type = "float" /\ input0[key].t = "int"
    /\ "constraints" \in schema0[key].has =>
          ApplyConstraint(schema0[key].constraints, input0[key])

\* C9: a Float field given an integer, in a call with nothing else to report,
\* comes back in validated_input as the Float of the same magnitude, and every
\* other field holds the value the input supplied.
C9_IntForFloatCoerced ==
    (/\ Called
     /\ DOMAIN input0 = DOMAIN schema0
     /\ \A key \in DOMAIN schema0 : WellFormed(key) /\ SuppliedNumeric(key))
    => /\ result.kind = "validated_input"
       /\ \A key \in DOMAIN schema0 :
             result.validated_input[key] =
                 IF schema0[key].type = "float" /\ input0[key].t = "int"
                 THEN FloatVal(input0[key].v)
                 ELSE input0[key]

Ended == dpc \in {"returned", "raised"}

====
